---- MODULE Spec2Model ----
(***************************************************************************)
(* Model of src/src/index.js: the utility function library of ci-fix-demo. *)
(*                                                                         *)
(* The module exports five synchronous functions and one async function.   *)
(* It declares no module-level variable, so the only state is that of the  *)
(* calls in progress:                                                      *)
(*   - Spec / FairSpec: a client calling the synchronous functions one at  *)
(*     a time (JavaScript runs each to completion).  factorial is run      *)
(*     frame by frame so that its recursion is visible.                    *)
(*   - FetchSpec: up to MaxCalls fetchData calls in flight at once, their  *)
(*     two awaits interleaved by the event loop in any order.              *)
(***************************************************************************)
EXTENDS Integers, Sequences, FiniteSets, TLC

(* ------------------------------ bounds --------------------------------- *)
MaxOperand == 3
MaxN == 10
MaxCalls == 2

(* --------------------------- JavaScript values -------------------------- *)
\* Values are tagged by their typeof; the payload field is named after the
\* type so that values of different types are never compared field by field.
Null == [t |-> "null"]
Undefined == [t |-> "undefined"]
Num(n) == [t |-> "number", num |-> n]
Str(s) == [t |-> "string", str |-> s]
Bool(b) == [t |-> "boolean", bool |-> b]
Obj(p) == [t |-> "object", props |-> p]
\* A built-in function, by the object that holds it and its name, and a
\* built-in prototype object.
Fn(home, name) == [t |-> "function", home |-> home, fname |-> name]
Builtin(name) == [t |-> "object", builtin |-> name]
NoProps == [k \in {} |-> Undefined]

\* How a synchronous call ends: a returned value or a thrown error.
Return(v) == [kind |-> "return", value |-> v]
Throw(n, m) == [kind |-> "throw", name |-> n, message |-> m]
NoOutcome == [kind |-> "none"]

(* ------------------------------- inputs -------------------------------- *)
Operands == (0 - MaxOperand)..MaxOperand
FactorialInputs == (0 - MaxN)..MaxN
Values ==
  {Null, Undefined, Num(0), Num(1), Str(""), Str("x"), Str("default"),
   Bool(FALSE), Bool(TRUE), Obj(NoProps)}
Defaults == {Str("default"), Num(0), Null}
NestedValues ==
  {Null, Undefined, Num(0), Str("abc"), Obj(NoProps),
   Obj([foo |-> Str("bar")]), Obj([foo |-> Undefined]),
   Obj([foo |-> Num(0), bar |-> Null]), Obj([bar |-> Bool(FALSE)]),
   Obj([toString |-> Str("own")]), Bool(TRUE)}
Containers ==
  {Null, Undefined, Num(0), Str(""), Obj(NoProps), Obj([other |-> Num(1)])}
    \cup {Obj([nested |-> v]) : v \in NestedValues}
PropertyNames ==
  {"foo", "bar", "nested", "toString", "constructor", "hasOwnProperty",
   "__proto__", "length", "0", "3", "charAt", "at", "replaceAll",
   "toFixed", "toLocaleString"}

VARIABLES
  fn,       \* name of the synchronous function called last ("none" at start)
  args,     \* its arguments, as JavaScript values
  outcome,  \* how the call ended; NoOutcome while it runs
  pc,       \* "idle", or where the running factorial call is: "enter"/"return"
  stack,    \* arguments of the active factorial frames, outermost first
  acc,      \* value returned by the factorial frame that finished last
  calls     \* the fetchData calls, by call id

syncVars == <<fn, args, outcome, pc, stack, acc>>
vars == <<fn, args, outcome, pc, stack, acc, calls>>

(* ------------------------ synchronous functions ------------------------ *)
\* A subtraction in place of the addition.
add_minus(a, b) == a - b

\* add(a, b): return a + b
add(a, b) == a + b

\* An addition in place of the multiplication.
multiply_plus(a, b) == a + b

\* multiply(a, b): return a * b
multiply(a, b) == a * b

\* The test of ?? and ?. : null or undefined, nothing else.
IsNullish(v) == v.t \in {"null", "undefined"}

\* ToBoolean(v) is false: what `||` tests instead of `??`.
IsFalsy(v) ==
  \/ IsNullish(v)
  \/ (v.t = "number" /\ v.num = 0)
  \/ (v.t = "string" /\ v.str = "")
  \/ (v.t = "boolean" /\ ~v.bool)

\* value || defaultValue: a truthiness test in place of the nullish one.
getValueOrDefault_truthy(value, defaultValue) ==
  IF IsFalsy(value) THEN defaultValue ELSE value

\* value ?? defaultValue
getValueOrDefault(value, defaultValue) ==
  IF IsNullish(value) THEN defaultValue ELSE value

\* The characters of the string literals the model uses.
StrChars(str) ==
  CASE str = "" -> <<>>
    [] str = "x" -> <<"x">>
    [] str = "abc" -> <<"a", "b", "c">>
    [] str = "bar" -> <<"b", "a", "r">>
    [] str = "own" -> <<"o", "w", "n">>
    [] str = "default" -> <<"d", "e", "f", "a", "u", "l", "t">>

\* Property names that are array indices, and the index they denote.
IndexKeys == {"0", "1", "2", "3", "4", "5", "6", "7", "8", "9"}
IndexOf(key) ==
  CASE key = "0" -> 0 [] key = "1" -> 1 [] key = "2" -> 2 [] key = "3" -> 3
    [] key = "4" -> 4 [] key = "5" -> 5 [] key = "6" -> 6 [] key = "7" -> 7
    [] key = "8" -> 8 [] key = "9" -> 9

\* The own properties of a value: the entries of an object; the length and
\* the characters of a string; none for a number or a boolean.
OwnKeys(v) ==
  IF v.t = "object" THEN DOMAIN v.props
  ELSE IF v.t = "string"
    THEN {"length"} \cup {k \in IndexKeys : IndexOf(k) < Len(StrChars(v.str))}
  ELSE {}

OwnValue(v, key) ==
  IF v.t = "object" THEN v.props[key]
  ELSE IF key = "length" THEN Num(Len(StrChars(v.str)))
  ELSE Str(StrChars(v.str)[IndexOf(key) + 1])

\* The members of Object.prototype, the end of every prototype chain.
ObjectPrototypeKeys ==
  {"constructor", "__defineGetter__", "__defineSetter__", "hasOwnProperty",
   "__lookupGetter__", "__lookupSetter__", "isPrototypeOf",
   "propertyIsEnumerable", "toString", "valueOf", "__proto__",
   "toLocaleString"}

\* The members String.prototype and Number.prototype add to those (Node 20).
StringPrototypeKeys ==
  {"anchor", "at", "big", "blink", "bold", "charAt", "charCodeAt",
   "codePointAt", "concat", "endsWith", "fontcolor", "fontsize", "fixed",
   "includes", "indexOf", "isWellFormed", "italics", "lastIndexOf", "link",
   "localeCompare", "match", "matchAll", "normalize", "padEnd", "padStart",
   "repeat", "replace", "replaceAll", "search", "slice", "small", "split",
   "strike", "sub", "substr", "substring", "sup", "startsWith",
   "toWellFormed", "trim", "trimStart", "trimLeft", "trimEnd", "trimRight",
   "toLocaleLowerCase", "toLocaleUpperCase", "toLowerCase", "toUpperCase"}
NumberPrototypeKeys == {"toExponential", "toFixed", "toPrecision"}

\* The prototype of a value.
PrototypeOf(v) ==
  CASE v.t = "object" -> "Object.prototype"
    [] v.t = "string" -> "String.prototype"
    [] v.t = "number" -> "Number.prototype"
    [] v.t = "boolean" -> "Boolean.prototype"

\* The members a prototype holds itself: those it adds and those of
\* Object.prototype it overrides.
PrototypeKeys(proto) ==
  CASE proto = "Object.prototype" -> ObjectPrototypeKeys
    [] proto = "String.prototype" ->
         StringPrototypeKeys \cup {"constructor", "toString", "valueOf"}
    [] proto = "Number.prototype" ->
         NumberPrototypeKeys
           \cup {"constructor", "toString", "valueOf", "toLocaleString"}
    [] proto = "Boolean.prototype" -> {"constructor", "toString", "valueOf"}

\* The names a value finds on its prototype chain.
InheritedKeys(v) == PrototypeKeys(PrototypeOf(v)) \cup ObjectPrototypeKeys

\* The nearest prototype of the chain that holds key.
Provider(v, key) ==
  IF key \in PrototypeKeys(PrototypeOf(v)) THEN PrototypeOf(v)
  ELSE "Object.prototype"

\* The constructor a prototype belongs to.
ConstructorName(proto) ==
  CASE proto = "Object.prototype" -> "Object"
    [] proto = "String.prototype" -> "String"
    [] proto = "Number.prototype" -> "Number"
    [] proto = "Boolean.prototype" -> "Boolean"

\* The member found on the prototype chain under key: the global constructor
\* function, the value's prototype for __proto__, else the built-in function
\* the nearest prototype holds (trimLeft and trimRight are the functions
\* trimStart and trimEnd).
InheritedValue(v, key) ==
  IF key = "constructor"
    THEN Fn("globalThis", ConstructorName(Provider(v, key)))
  ELSE IF key = "__proto__" THEN Builtin(PrototypeOf(v))
  ELSE IF key = "trimLeft" THEN Fn(Provider(v, key), "trimStart")
  ELSE IF key = "trimRight" THEN Fn(Provider(v, key), "trimEnd")
  ELSE Fn(Provider(v, key), key)

\* Property read v[key] on a value that is not nullish: the own property if
\* there is one, else the member inherited under that name, else undefined.
GetProp(v, key) ==
  IF key \in OwnKeys(v) THEN OwnValue(v, key)
  ELSE IF key \in InheritedKeys(v) THEN InheritedValue(v, key)
  ELSE Undefined

TypeErrorOfNullish ==
  Throw("TypeError", "Cannot read properties of undefined")

\* obj.nested[prop]: plain member access, which throws on null or undefined.
getNestedProperty_unguarded(obj, prop) ==
  IF IsNullish(obj) THEN TypeErrorOfNullish
  ELSE LET nested == GetProp(obj, "nested")
       IN  IF IsNullish(nested) THEN TypeErrorOfNullish
           ELSE Return(GetProp(nested, prop))

\* obj?.nested?.[prop]
getNestedProperty(obj, prop) ==
  IF IsNullish(obj) THEN Return(Undefined)
  ELSE LET nested == GetProp(obj, "nested")
       IN  IF IsNullish(nested) THEN Return(Undefined)
           ELSE Return(GetProp(nested, prop))

NegativeMessage == "Factorial not defined for negative numbers"

\* n <= 0: the guard off by one.
IsNegative_orZero(n) == n <= 0

\* n < 0
IsNegative(n) == n < 0

\* n === 0 || n === 1
IsBase(n) == n = 0 \/ n = 1

SyncInit ==
  /\ fn = "none"
  /\ args = <<>>
  /\ outcome = NoOutcome
  /\ pc = "idle"
  /\ stack = <<>>
  /\ acc = 0

\* A synchronous call that runs to completion in one step.
Finish(f, a, o) ==
  /\ pc = "idle"
  /\ fn' = f
  /\ args' = a
  /\ outcome' = o
  /\ UNCHANGED <<pc, stack, acc, calls>>

CallAdd ==
  \E a, b \in Operands :
    Finish("add", <<Num(a), Num(b)>>, Return(Num(add(a, b))))

CallMultiply ==
  \E a, b \in Operands :
    Finish("multiply", <<Num(a), Num(b)>>, Return(Num(multiply(a, b))))

CallGetValueOrDefault ==
  \E v \in Values, d \in Defaults :
    Finish("getValueOrDefault", <<v, d>>, Return(getValueOrDefault(v, d)))

CallGetNestedProperty ==
  \E o \in Containers, p \in PropertyNames :
    Finish("getNestedProperty", <<o, Str(p)>>, getNestedProperty(o, p))

\* factorial(n) is entered: a first frame is pushed.
CallFactorial ==
  \E n \in FactorialInputs :
    /\ pc = "idle"
    /\ fn' = "factorial"
    /\ args' = <<Num(n)>>
    /\ outcome' = NoOutcome
    /\ pc' = "enter"
    /\ stack' = <<n>>
    /\ UNCHANGED <<acc, calls>>

Top == stack[Len(stack)]
Pop == SubSeq(stack, 1, Len(stack) - 1)

\* A frame returns v to its caller, or to the client when it is the outermost.
FrameReturns(v) ==
  /\ stack' = Pop
  /\ acc' = v
  /\ IF Len(stack) = 1
       THEN pc' = "idle" /\ outcome' = Return(Num(v))
       ELSE pc' = "return" /\ UNCHANGED outcome

\* if (n < 0) throw new Error(...): nothing catches it, every frame unwinds.
FactorialThrow ==
  /\ pc = "enter"
  /\ IsNegative(Top)
  /\ stack' = <<>>
  /\ pc' = "idle"
  /\ outcome' = Throw("Error", NegativeMessage)
  /\ UNCHANGED <<fn, args, acc, calls>>

\* if (n === 0 || n === 1) return 1
FactorialBase ==
  /\ pc = "enter"
  /\ ~IsNegative(Top)
  /\ IsBase(Top)
  /\ FrameReturns(1)
  /\ UNCHANGED <<fn, args, calls>>

\* return n * factorial(n - 1): the sub-call is entered
FactorialRecurse ==
  /\ pc = "enter"
  /\ ~IsNegative(Top)
  /\ ~IsBase(Top)
  /\ stack' = Append(stack, Top - 1)
  /\ UNCHANGED <<fn, args, outcome, pc, acc, calls>>

\* n + factorial(n - 1): a sum in place of the product.
FactorialMultiply_sum ==
  /\ pc = "return"
  /\ FrameReturns(Top + acc)
  /\ UNCHANGED <<fn, args, calls>>

\* return n * factorial(n - 1): the sub-call has returned acc
FactorialMultiply ==
  /\ pc = "return"
  /\ FrameReturns(Top * acc)
  /\ UNCHANGED <<fn, args, calls>>

FactorialStep ==
  FactorialThrow \/ FactorialBase \/ FactorialRecurse \/ FactorialMultiply

Next ==
  \/ CallAdd
  \/ CallMultiply
  \/ CallGetValueOrDefault
  \/ CallGetNestedProperty
  \/ CallFactorial
  \/ FactorialStep

(* ------------------------------ fetchData ------------------------------ *)
\* The collaborators of fetchData are the runtime's fetch and Response.json.
\* They are black boxes: the model lets them answer in every way they can.
CallIds == 1..MaxCalls
Urls == {"/a", "/b"}
Statuses == {200, 404, 500}
Err(n, m) == [name |-> n, message |-> m]
NoError == Err("", "")
TransportErrors ==
  {Err("TypeError", "fetch failed"), Err("TypeError", "socket hang up")}
StreamError == Err("TypeError", "terminated")
JsonSyntaxError == Err("SyntaxError", "Unexpected token")

\* Body texts a server may send, and what JSON decoding makes of them.
JsonValid == {"{\"a\":1}", "null", "0"}
Bodies == JsonValid \cup {"<html>", ""}
JsonParse(text) ==
  CASE text = "{\"a\":1}" -> Obj([a |-> Num(1)])
    [] text = "null" -> Null
    [] text = "0" -> Num(0)

\* The errors with which response.json() can reject for a body.
DecodeErrors(body) ==
  (IF body \in JsonValid THEN {} ELSE {JsonSyntaxError}) \cup {StreamError}

NoResponse == [req |-> 0, url |-> "", status |-> 0, body |-> ""]
Pending == [kind |-> "pending"]
Fulfilled(v) == [kind |-> "fulfilled", value |-> v]
Rejected(e) == [kind |-> "rejected", error |-> e]

\* One fetchData call:
\*   pc        where the call is: "idle" (not called), "awaitFetch",
\*             "awaitJson", "resolved", "rejected"
\*   url       its argument
\*   response  its local constant `response` (NoResponse before the await ends)
\*   settled   the state of the promise the caller holds
\*   events    what the call and its collaborators did, in order
\*   raised    the error a collaborator raised, NoError if none
NewCall ==
  [pc |-> "idle", url |-> "", response |-> NoResponse, settled |-> Pending,
   events |-> <<>>, raised |-> NoError]

FetchInit == calls = [c \in CallIds |-> NewCall]

Init == SyncInit /\ FetchInit

\* fetchData(url): runs up to `await fetch(url)`; one GET is issued.
FetchDataCall(c, u) ==
  /\ calls[c].pc = "idle"
  /\ calls' = [calls EXCEPT ![c] =
       [@ EXCEPT !.pc = "awaitFetch", !.url = u, !.events = <<"GET">>]]
  /\ UNCHANGED syncVars

\* A response kept in a variable all calls share: a call whose GET is answered
\* while another call holds a response decodes that one.
FetchDataResume_shared(c, s, b) ==
  /\ calls[c].pc = "awaitFetch"
  /\ LET holders == {d \in CallIds \ {c} : calls[d].response # NoResponse}
         own == [req |-> c, url |-> calls[c].url, status |-> s, body |-> b]
         used == IF holders = {} THEN own
                 ELSE calls[CHOOSE d \in holders : TRUE].response
     IN  calls' = [calls EXCEPT ![c] =
           [@ EXCEPT !.pc = "awaitJson", !.response = used,
                     !.events = @ \o <<"response", "json">>]]
  /\ UNCHANGED syncVars

\* if (!response.ok) throw ...: a status check before the decode.
FetchDataResume_checked(c, s, b) ==
  /\ calls[c].pc = "awaitFetch"
  /\ LET own == [req |-> c, url |-> calls[c].url, status |-> s, body |-> b]
     IN  calls' = [calls EXCEPT ![c] =
           IF s = 200
             THEN [@ EXCEPT !.pc = "awaitJson", !.response = own,
                            !.events = @ \o <<"response", "json">>]
             ELSE [@ EXCEPT !.pc = "rejected", !.response = own,
                            !.settled = Rejected(Err("Error", "HTTP error")),
                            !.events = @ \o <<"response">>]]
  /\ UNCHANGED syncVars

\* The GET of call c is answered (any status, any body): the await ends,
\* `response` is bound and response.json() is called at once.
FetchDataResume(c, s, b) ==
  /\ calls[c].pc = "awaitFetch"
  /\ calls' = [calls EXCEPT ![c] =
       [@ EXCEPT !.pc = "awaitJson",
                 !.response = [req |-> c, url |-> calls[c].url,
                               status |-> s, body |-> b],
                 !.events = @ \o <<"response", "json">>]]
  /\ UNCHANGED syncVars

\* try { ... } catch { return null }: the failure is swallowed.
FetchDataFetchRejected_caught(c, e) ==
  /\ calls[c].pc = "awaitFetch"
  /\ calls' = [calls EXCEPT ![c] =
       [@ EXCEPT !.pc = "resolved", !.raised = e, !.settled = Fulfilled(Null),
                 !.events = @ \o <<"fetchError">>]]
  /\ UNCHANGED syncVars

\* The GET of call c fails with e: the await throws e, nothing catches it.
FetchDataFetchRejected(c, e) ==
  /\ calls[c].pc = "awaitFetch"
  /\ calls' = [calls EXCEPT ![c] =
       [@ EXCEPT !.pc = "rejected", !.raised = e, !.settled = Rejected(e),
                 !.events = @ \o <<"fetchError">>]]
  /\ UNCHANGED syncVars

\* The decode of call c completes: the promise returned by response.json()
\* fulfils and the promise of fetchData follows it.
FetchDataJsonFulfilled(c) ==
  /\ calls[c].pc = "awaitJson"
  /\ calls[c].response.body \in JsonValid
  /\ calls' = [calls EXCEPT ![c] =
       [@ EXCEPT !.pc = "resolved",
                 !.settled = Fulfilled(JsonParse(calls[c].response.body)),
                 !.events = @ \o <<"decoded">>]]
  /\ UNCHANGED syncVars

\* The decode of call c fails with e: the promise of fetchData follows it.
FetchDataJsonRejected(c, e) ==
  /\ calls[c].pc = "awaitJson"
  /\ e \in DecodeErrors(calls[c].response.body)
  /\ calls' = [calls EXCEPT ![c] =
       [@ EXCEPT !.pc = "rejected", !.raised = e, !.settled = Rejected(e),
                 !.events = @ \o <<"jsonError">>]]
  /\ UNCHANGED syncVars

FetchNext ==
  \/ \E c \in CallIds, u \in Urls : FetchDataCall(c, u)
  \/ \E c \in CallIds, s \in Statuses, b \in Bodies : FetchDataResume(c, s, b)
  \/ \E c \in CallIds, e \in TransportErrors : FetchDataFetchRejected(c, e)
  \/ \E c \in CallIds : FetchDataJsonFulfilled(c)
  \/ \E c \in CallIds, e \in {JsonSyntaxError, StreamError} :
       FetchDataJsonRejected(c, e)

(* --------------------------- specifications ---------------------------- *)
Spec == Init /\ [][Next]_vars

\* A synchronous function runs to completion: a running factorial call is
\* never left half-way.
FairSpec == Spec /\ WF_vars(FactorialStep)

FetchSpec == Init /\ [][FetchNext]_vars

(* ------------------------------- claims -------------------------------- *)
SyncDone(f) == fn = f /\ pc = "idle"

\* C1: factorial(n) throws the error with the message "Factorial not
\* defined for negative numbers", and returns no value, for every n < 0; it
\* throws for no n >= 0, in no frame of its recursion.
C1_NegativeOnlyError ==
  fn = "factorial" =>
    /\ (args[1].num >= 0 => outcome.kind # "throw")
    /\ (pc = "idle" =>
          IF args[1].num < 0
            THEN outcome = Throw("Error", NegativeMessage)
            ELSE outcome.kind = "return")

C1_Witness ==
  SyncDone("factorial") /\ args[1].num < 0 - 1 /\ outcome.kind = "throw"

\* The reference: result = 1; for (i = 2; i <= n; i++) result *= i.
RECURSIVE IterLoop(_, _, _)
IterLoop(i, n, result) ==
  IF i > n THEN result ELSE IterLoop(i + 1, n, result * i)
IterativeFactorial(n) == IterLoop(2, n, 1)

\* While factorial(n), n >= 0, runs, its frames hold n, n - 1, ... with no
\* argument below 0; when it is done it has returned 1 * 2 * ... * n.
C2_ProductInv ==
  (fn = "factorial" /\ args[1].num >= 0) =>
    LET n == args[1].num
    IN  /\ \A i \in 1..Len(stack) : stack[i] = n - (i - 1) /\ stack[i] >= 0
        /\ (pc = "idle" =>
              /\ outcome = Return(Num(IterativeFactorial(n)))
              /\ (n = 0 => outcome.value = Num(1))
              /\ (n = 1 => outcome.value = Num(1))
              /\ (n = 5 => outcome.value = Num(120)))

\* C2: for every n >= 0, factorial(n) terminates, its recursion reaching
\* the base case without passing below 0, and returns the product
\* 1 * 2 * ... * n, which is what the iterative reference computes.
C2_FactorialProduct ==
  /\ []C2_ProductInv
  /\ (fn = "factorial" /\ args[1].num >= 0 /\ pc # "idle")
       ~> (fn = "factorial" /\ pc = "idle" /\ outcome.kind = "return")

C2_Witness ==
  SyncDone("factorial") /\ args[1] = Num(5) /\ outcome = Return(Num(120))

\* C3: getValueOrDefault(value, defaultValue) returns defaultValue when value
\* is null or undefined and value itself otherwise, the falsy values 0, ""
\* and false included; it returns defaultValue in no other case (two equal
\* arguments apart, where the two answers are the same value).
C3_NullishOnly ==
  fn = "getValueOrDefault" =>
    LET value == args[1]
        defaultValue == args[2]
        absent == value = Null \/ value = Undefined
    IN  /\ outcome.kind = "return"
        /\ (absent => outcome.value = defaultValue)
        /\ (~absent => outcome.value = value)
        /\ (value # defaultValue => (outcome.value = defaultValue <=> absent))

C3_Witness ==
  /\ SyncDone("getValueOrDefault")
  /\ args = <<Bool(FALSE), Str("default")>>
  /\ outcome = Return(Bool(FALSE))

\* The container has no entry of its own to give for the property: one of
\* the links container, container.nested, container.nested[propertyName] is
\* missing.
MissingLink(container, propertyName) ==
  \/ container = Null
  \/ container = Undefined
  \/ "nested" \notin OwnKeys(container)
  \/ container.props["nested"] = Null
  \/ container.props["nested"] = Undefined
  \/ propertyName \notin OwnKeys(container.props["nested"])

\* C4 as stated: getNestedProperty(container, propertyName) never throws; it
\* returns undefined when a link is missing, in particular when
\* container.nested has no entry named propertyName, and the value stored
\* under propertyName in container.nested otherwise.
C4_SafeTraversal ==
  fn = "getNestedProperty" =>
    /\ outcome.kind = "return"
    /\ IF MissingLink(args[1], args[2].str)
         THEN outcome.value = Undefined
         ELSE outcome.value = OwnValue(args[1].props["nested"], args[2].str)

\* C4 amended: getNestedProperty(container, propertyName) never throws; it
\* returns undefined when container or container.nested is null, undefined
\* or not there, or when container.nested has no property named
\* propertyName, own or inherited; it returns the stored value when
\* container.nested has an entry of that name, and the inherited member (a
\* built-in function or prototype, never undefined) when the name is only
\* inherited.
C4_PropertyRead ==
  fn = "getNestedProperty" =>
    LET container == args[1]
        propertyName == args[2].str
        noNested == \/ container = Null
                    \/ container = Undefined
                    \/ "nested" \notin OwnKeys(container)
                    \/ container.props["nested"] = Null
                    \/ container.props["nested"] = Undefined
    IN  /\ outcome.kind = "return"
        /\ IF noNested THEN outcome.value = Undefined
           ELSE LET nested == container.props["nested"]
                IN  IF propertyName \in OwnKeys(nested)
                      THEN outcome.value = OwnValue(nested, propertyName)
                    ELSE IF propertyName \in InheritedKeys(nested)
                      THEN /\ outcome.value = InheritedValue(nested, propertyName)
                           /\ outcome.value # Undefined
                    ELSE outcome.value = Undefined

C4_Witness ==
  /\ SyncDone("getNestedProperty")
  /\ args = <<Obj([nested |-> Obj(NoProps)]), Str("toString")>>
  /\ outcome = Return(Fn("Object.prototype", "toString"))

\* The number of GETs a call has issued.
Gets(c) == Cardinality({i \in 1..Len(calls[c].events) : calls[c].events[i] = "GET"})

\* C5: a fetchData call whose GET or decode fails is rejected with the very
\* error raised, is never fulfilled, issues no second GET and, when the GET
\* failed, starts no decode.
C5_FailuresPropagate ==
  \A c \in CallIds :
    /\ Gets(c) <= 1
    /\ (calls[c].raised # NoError =>
          /\ calls[c].pc = "rejected"
          /\ calls[c].settled = Rejected(calls[c].raised)
          /\ \/ /\ calls[c].events = <<"GET", "fetchError">>
                /\ calls[c].raised \in TransportErrors
                /\ calls[c].response = NoResponse
             \/ /\ calls[c].events = <<"GET", "response", "json", "jsonError">>
                /\ calls[c].raised \in DecodeErrors(calls[c].response.body))
    /\ (calls[c].pc = "rejected" => calls[c].raised # NoError)

C5_Witness ==
  /\ calls[1].pc = "rejected" /\ calls[1].events = <<"GET", "fetchError">>
  /\ calls[2].pc = "rejected" /\ calls[2].raised = JsonSyntaxError

\* C6: add(a, b) returns a + b, which is add(b, a), and a when b is 0; it
\* never throws.
C6_AddLaws ==
  fn = "add" =>
    LET a == args[1].num
        b == args[2].num
    IN  /\ outcome.kind = "return"
        /\ outcome.value = Num(a + b)
        /\ outcome.value = Num(add(b, a))
        /\ (b = 0 => outcome.value = Num(a))

C6_Witness ==
  SyncDone("add") /\ args = <<Num(2), Num(3)>> /\ outcome = Return(Num(5))

\* C7: multiply(a, b) returns a * b, which is multiply(b, a), and 0 when b
\* is 0; it never throws.
C7_MultiplyLaws ==
  fn = "multiply" =>
    LET a == args[1].num
        b == args[2].num
    IN  /\ outcome.kind = "return"
        /\ outcome.value = Num(a * b)
        /\ outcome.value = Num(multiply(b, a))
        /\ (b = 0 => outcome.value = Num(0))

C7_Witness ==
  /\ SyncDone("multiply")
  /\ args = <<Num(3), Num(0)>>
  /\ outcome = Return(Num(0))

\* C9: whatever the other calls do and in whatever order, the response a
\* call holds is the answer to its own GET of its own url, and the call
\* settles with the decoded body of that response or with its own error.
C9_CallsIsolated ==
  \A c \in CallIds :
    /\ (calls[c].response # NoResponse =>
          /\ calls[c].response.req = c
          /\ calls[c].response.url = calls[c].url)
    /\ (calls[c].pc = "resolved" =>
          calls[c].settled = Fulfilled(JsonParse(calls[c].response.body)))
    /\ (calls[c].pc = "rejected" =>
          calls[c].settled = Rejected(calls[c].raised))

C9_Witness ==
  /\ calls[1].pc = "awaitJson" /\ calls[1].url = "/a"
  /\ calls[2].pc = "resolved" /\ calls[2].url = "/b"
  /\ calls[1].response.body # calls[2].response.body

\* C10: a call issues one GET and waits; once the response is there, whatever
\* its status, it starts one decode and waits; then it resolves with the
\* decoded body.  No decode starts without a response.
C10_TwoAwaitsInOrder ==
  \A c \in CallIds :
    LET ev == calls[c].events
        decodes == {i \in 1..Len(ev) : ev[i] = "json"}
    IN  /\ (calls[c].pc = "idle" => ev = <<>>)
        /\ (calls[c].pc = "awaitFetch" =>
              ev = <<"GET">> /\ calls[c].response = NoResponse)
        /\ (calls[c].pc = "awaitJson" => ev = <<"GET", "response", "json">>)
        /\ (calls[c].pc = "resolved" =>
              /\ ev = <<"GET", "response", "json", "decoded">>
              /\ calls[c].settled = Fulfilled(JsonParse(calls[c].response.body)))
        /\ (calls[c].response # NoResponse <=> decodes = {3})
        /\ (calls[c].response = NoResponse => decodes = {})

C10_Witness ==
  \E c \in CallIds :
    /\ calls[c].pc = "resolved"
    /\ calls[c].response.status = 404
    /\ calls[c].settled = Fulfilled(Obj([a |-> Num(1)]))

====
